---- MODULE Spec2Model ----
(***************************************************************************)
(* Model of fuel/config_parser.py: the Configuration registry (add_config, *)
(* load_yaml, __getattr__, __setattr__), the coercion functions it ships   *)
(* with, and the module-level bootstrap that registers fuel's settings,    *)
(* loads the YAML file and substitutes theano's floatX as a default.       *)
(*                                                                         *)
(* Four specifications:                                                    *)
(*   Spec      a Configuration object under calls of add_config,           *)
(*             load_yaml, __getattr__ and __setattr__, with a changing     *)
(*             environment,                                                *)
(*   SpecLoad  load_yaml over every YAML mapping of up to MaxYamlKeys      *)
(*             items, with the file present or absent at either place,     *)
(*   SpecBoot  the module body (lines 231-255), followed by reads and      *)
(*             writes of the two settings the body itself uses,            *)
(*   SpecCoerce  the coercion functions alone, applied to a value and then *)
(*             to their own result.                                        *)
(***************************************************************************)
EXTENDS Integers, Sequences, FiniteSets, TLC

(***************************************************************************)
(* Python values.  A str is the sequence of its characters; every value is *)
(* a record of one shape, so that any two values can be compared.          *)
(***************************************************************************)
PyStr(chars) == [kind |-> "str", s |-> chars, l |-> <<>>, n |-> 0]
PyList(items) == [kind |-> "list", s |-> <<>>, l |-> items, n |-> 0]
PyInt(i) == [kind |-> "int", s |-> <<>>, l |-> <<>>, n |-> i]
PyBool(b) == [kind |-> "bool", s |-> <<>>, l |-> <<>>, n |-> IF b THEN 1 ELSE 0]
None == [kind |-> "None", s |-> <<>>, l |-> <<>>, n |-> 0]
\* The empty dict, {} (line 130).
EmptyDict == [kind |-> "dict", s |-> <<>>, l |-> <<>>, n |-> 0]
\* The sentinel of line 91; it also marks a key that a dict does not hold.
NOT_SET == [kind |-> "NOT_SET", s |-> <<>>, l |-> <<>>, n |-> 0]

True == PyBool(TRUE)
False == PyBool(FALSE)

\* The outcome of a call: a returned value, or the exception it raised.
\* msg is what the exception names (the "{}" of its format string), if anything.
Return(v) == [exc |-> "", msg |-> "", val |-> v]
RaiseAbout(e, what) == [exc |-> e, msg |-> what, val |-> NOT_SET]
Raise(e) == RaiseAbout(e, "")

\* String literals of the source and of the inputs.
EmptyStr == <<>>
S_1 == <<"1">>
S_0 == <<"0">>
S_True == <<"T", "r", "u", "e">>
S_true == <<"t", "r", "u", "e">>
S_False == <<"F", "a", "l", "s", "e">>
S_false == <<"f", "a", "l", "s", "e">>
S_None == <<"N", "o", "n", "e">>
S_yes == <<"y", "e", "s">>
S_f64 == <<"f", "6", "4">>
S_f32 == <<"f", "3", "2">>
S_f16 == <<"f", "1", "6">>

\* os.path.pathsep of the docstring's "Linux and OSX" platform (line 22).
pathsep == ":"

(***************************************************************************)
(* str.split(sep) for a one-character separator: the pieces between the    *)
(* occurrences of sep, empty pieces included; "" splits to [""].           *)
(***************************************************************************)
RECURSIVE SplitFrom(_, _, _, _)
SplitFrom(chars, sep, i, piece) ==
    IF i > Len(chars) THEN <<piece>>
    ELSE IF chars[i] = sep THEN <<piece>> \o SplitFrom(chars, sep, i + 1, <<>>)
    ELSE SplitFrom(chars, sep, i + 1, Append(piece, chars[i]))

split(chars, sep) == SplitFrom(chars, sep, 1, <<>>)

\* extra_downloader_converter (lines 94-106)
extra_downloader_converter(value) ==
    IF value.kind = "str" THEN Return(PyList(split(value.s, " ")))
    ELSE Return(value)

\* multiple_paths_parser without the isinstance test: a list has no split.
multiple_paths_parser_str_only(value) ==
    IF value.kind = "str" THEN Return(PyList(split(value.s, pathsep)))
    ELSE Raise("AttributeError")

\* multiple_paths_parser (lines 109-125)
multiple_paths_parser(value) ==
    IF value.kind = "str" THEN Return(PyList(split(value.s, pathsep)))
    ELSE Return(value)

\* bool(value) of a non-string value (line 228)
bool(value) ==
    CASE value.kind = "bool" -> value
      [] value.kind = "int" -> PyBool(value.n # 0)
      [] value.kind = "list" -> PyBool(Len(value.l) > 0)
      [] value.kind = "str" -> PyBool(Len(value.s) > 0)
      [] OTHER -> False

\* _human_bool with a string cast by its length, as bool(value) casts it.
human_bool_by_length(value, default) ==
    Return(IF value.kind = "str" THEN PyBool(Len(value.s) > 0) ELSE bool(value))

\* _human_bool (lines 200-228)
_human_bool(value, default) ==
    IF value.kind = "str"
    THEN IF Len(value.s) = 0 THEN Return(default)
         ELSE IF value.s = S_1 \/ value.s = S_True \/ value.s = S_true
              THEN Return(True)
         ELSE IF value.s = S_0 \/ value.s = S_False \/ value.s = S_false
              THEN Return(False)
         ELSE Raise("ValueError")
    ELSE Return(bool(value))

(***************************************************************************)
(* The builtins int and str, used as type_ at lines 236 and 243.           *)
(***************************************************************************)
Digits == <<"0", "1", "2", "3", "4", "5", "6", "7", "8", "9">>

IsDigit(c) == \E d \in 1..10 : Digits[d] = c

DigitValue(c) == (CHOOSE d \in 1..10 : Digits[d] = c) - 1

RECURSIVE Decimal(_)
Decimal(chars) ==
    IF chars = <<>> THEN 0
    ELSE 10 * Decimal(SubSeq(chars, 1, Len(chars) - 1))
         + DigitValue(chars[Len(chars)])

RECURSIVE Strip(_)
Strip(chars) ==
    IF chars = <<>> THEN chars
    ELSE IF Head(chars) = " " THEN Strip(Tail(chars))
    ELSE IF chars[Len(chars)] = " "
         THEN Strip(SubSeq(chars, 1, Len(chars) - 1))
    ELSE chars

AllDigits(chars) == chars # <<>> /\ \A i \in 1..Len(chars) : IsDigit(chars[i])

\* int("  -12 ") == -12; a string that is no decimal literal is a ValueError.
IntOfStr(chars) ==
    LET t == Strip(chars)
        signed == t # <<>> /\ Head(t) \in {"+", "-"}
        body == IF signed THEN Tail(t) ELSE t
    IN  IF AllDigits(body)
        THEN Return(PyInt(IF signed /\ Head(t) = "-"
                        THEN 0 - Decimal(body) ELSE Decimal(body)))
        ELSE Raise("ValueError")

int(value) ==
    CASE value.kind = "str" -> IntOfStr(value.s)
      [] value.kind = "int" -> Return(value)
      [] value.kind = "bool" -> Return(PyInt(value.n))
      [] OTHER -> Raise("TypeError")

RECURSIVE DecimalChars(_)
DecimalChars(i) ==
    IF i < 10 THEN <<Digits[i + 1]>>
    ELSE Append(DecimalChars(i \div 10), Digits[(i % 10) + 1])

RECURSIVE ReprItems(_)
ReprItems(items) ==
    IF items = <<>> THEN <<>>
    ELSE <<"'">> \o Head(items) \o <<"'">>
         \o (IF Len(items) > 1 THEN <<",", " ">> ELSE <<>>)
         \o ReprItems(Tail(items))

str(value) ==
    CASE value.kind = "str" -> Return(value)
      [] value.kind = "int" ->
            Return(PyStr(IF value.n < 0 THEN <<"-">> \o DecimalChars(0 - value.n)
                       ELSE DecimalChars(value.n)))
      [] value.kind = "bool" -> Return(PyStr(IF value.n = 1 THEN S_True ELSE S_False))
      [] value.kind = "list" -> Return(PyStr(<<"[">> \o ReprItems(value.l) \o <<"]">>))
      [] OTHER -> Return(PyStr(S_None))

(***************************************************************************)
(* config_setting['type'](value): the coercion a setting was registered    *)
(* with, named by the function given as type_ (lines 234-246).             *)
(***************************************************************************)
Types == {"str", "int", "multiple_paths_parser", "extra_downloader_converter",
          "_human_bool"}

ApplyType(type_, value) ==
    CASE type_ = "str" -> str(value)
      [] type_ = "int" -> int(value)
      [] type_ = "multiple_paths_parser" -> multiple_paths_parser(value)
      [] type_ = "extra_downloader_converter" -> extra_downloader_converter(value)
      [] type_ = "_human_bool" -> _human_bool(value, True)

(***************************************************************************)
(* Inputs.                                                                 *)
(***************************************************************************)
\* The longest YAML mapping load_yaml is given.
MaxYamlKeys == 2

\* Names of settings.  "config" is the attribute that holds the table itself
\* (line 130): __getattr__ and __setattr__ set it apart (lines 146, 164) and
\* no add_config call of the model registers it.
Keys == {"data_path", "floatX"}
GetKeys == Keys \cup {"config"}
\* A key a YAML file may hold and that no add_config call registers.
YamlKeys == Keys \cup {"verbose"}

NoEnvVar == "None"
EnvNames == {"FUEL_CONFIG", "FUEL_DATA_PATH", "FUEL_EXTRA_DOWNLOADERS",
             "FUEL_EXTRA_CONVERTERS", "FUEL_FLOATX", "FUEL_USES_THEANO"}

\* The add_config calls of the module body (lines 234-246), in order, each
\* with the line it starts at.
fuel_settings ==
    << [line |-> "234", key |-> "data_path", type_ |-> "multiple_paths_parser",
        default |-> NOT_SET, env_var |-> "FUEL_DATA_PATH"],
       [line |-> "236", key |-> "default_seed", type_ |-> "int",
        default |-> PyInt(1), env_var |-> NoEnvVar],
       [line |-> "237", key |-> "extra_downloaders",
        type_ |-> "extra_downloader_converter",
        default |-> PyList(<<>>), env_var |-> "FUEL_EXTRA_DOWNLOADERS"],
       [line |-> "239", key |-> "extra_converters",
        type_ |-> "extra_downloader_converter",
        default |-> PyList(<<>>), env_var |-> "FUEL_EXTRA_CONVERTERS"],
       [line |-> "243", key |-> "floatX", type_ |-> "str",
        default |-> PyStr(S_f64), env_var |-> "FUEL_FLOATX"],
       [line |-> "245", key |-> "fuel_uses_theano", type_ |-> "_human_bool",
        default |-> True, env_var |-> "FUEL_USES_THEANO"] >>

\* The add_config calls Spec makes: those of lines 234 and 243, and the same
\* two names registered again with the arguments of lines 236 and 245.
ModuleRegistrations ==
    { r \in { fuel_settings[i] : i \in DOMAIN fuel_settings } : r.key \in Keys }
Registrations ==
    ModuleRegistrations \cup
    { [line |-> "236", key |-> "data_path", type_ |-> "int",
       default |-> PyInt(1), env_var |-> NoEnvVar],
      [line |-> "245", key |-> "floatX", type_ |-> "_human_bool",
       default |-> True, env_var |-> "FUEL_FLOATX"] }

\* Values assigned through __setattr__, held by a YAML file, and strings
\* held by environment variables.
SetValues == {None, PyStr(S_true)}
YamlValues == {False, PyStr(EmptyStr)}
EnvStrings == {S_1, <<"1", ":", "0">>}

\* The two places of the YAML file: expanduser('~/.fuelrc') and the path
\* FUEL_CONFIG may name.
FuelRc == <<"~", "/", ".", "f", "u", "e", "l", "r", "c">>
Home == <<"/", "h">>
AltRc == <<"/", "e", "t", "c", "/", "f", "u", "e", "l">>
expanduser(path) == IF path # <<>> /\ Head(path) = "~" THEN Home \o Tail(path) ELSE path

\* What yaml.safe_load returns: a mapping, as the sequence of its items in
\* iteration order, or None for an empty file.
RECURSIVE ItemSeqs(_, _)
ItemSeqs(keys, n) ==
    IF n = 0 THEN {<<>>}
    ELSE LET shorter == ItemSeqs(keys, n - 1)
         IN  shorter \cup
             { Append(q, [key |-> k, value |-> v]) :
                 q \in shorter, k \in keys, v \in YamlValues }

DistinctKeys(items) ==
    \A i, j \in 1..Len(items) : items[i].key = items[j].key => i = j

NullDocument == [kind |-> "None", items |-> <<>>]
Mapping(items) == [kind |-> "dict", items |-> items]
DocumentsOver(keys, n) ==
    { Mapping(q) : q \in { q \in ItemSeqs(keys, n) : DistinctKeys(q) } }
    \cup {NullDocument}
Documents == DocumentsOver(YamlKeys, MaxYamlKeys)

(***************************************************************************)
(* State.                                                                  *)
(***************************************************************************)
VARIABLES
    config,     \* self.config: key -> the setting's dict
    environ,    \* os.environ: name -> str, or NOT_SET for a name it lacks
    files,      \* the paths at which os.path.isfile holds
    last,       \* the last call made and its outcome
    pc,         \* the statement of the module body to run next
    boot,       \* what the module body has done: whether load_yaml returned,
                \* and how the test of line 252 came out
    theano      \* the theano package: importable or not, its config.floatX,
                \* and how often it was imported

vars == <<config, environ, files, last, pc, boot, theano>>

\* A setting's dict; NOT_SET and NoEnvVar mark the keys it does not hold.
Setting(type_, default, env_var) ==
    [type |-> type_, env_var |-> env_var, default |-> default,
     value |-> NOT_SET, yaml |-> NOT_SET]

NoDocument == Mapping(<<>>)
Call(op, key, arg, doc, out) ==
    [op |-> op, key |-> key, arg |-> arg, doc |-> doc, out |-> out]

(***************************************************************************)
(* The methods of Configuration, as functions of the state they read.      *)
(***************************************************************************)
\* Configuration.__init__ (lines 129-130): self.config = {}
EmptyTable == [k \in {} |-> Setting("str", NOT_SET, NoEnvVar)]

\* The table a dict assigned to self.config is; {} is the only one assigned.
TableOf(value) == EmptyTable

\* add_config updating the entry a registered key already has.
add_config_updates_existing(cfg, key, type_, default, env_var) ==
    IF key \in DOMAIN cfg
    THEN [cfg EXCEPT ![key].type = type_, ![key].default = default,
                     ![key].env_var = env_var]
    ELSE [k \in DOMAIN cfg \cup {key} |->
             IF k = key THEN Setting(type_, default, env_var) ELSE cfg[k]]

\* Configuration.add_config (lines 169-197): the table after the call.
add_config(cfg, key, type_, default, env_var) ==
    [k \in DOMAIN cfg \cup {key} |->
        IF k = key THEN Setting(type_, default, env_var) ELSE cfg[k]]

\* __getattr__ with the YAML value looked up before the environment.
getattr_yaml_before_env(cfg, env, key) ==
    IF key = "config" \/ key \notin DOMAIN cfg THEN Raise("AttributeError")
    ELSE LET config_setting == cfg[key]
         IN  IF config_setting.value # NOT_SET
             THEN ApplyType(config_setting.type, config_setting.value)
             ELSE IF config_setting.yaml # NOT_SET
             THEN ApplyType(config_setting.type, config_setting.yaml)
             ELSE IF config_setting.env_var # NoEnvVar
                     /\ env[config_setting.env_var] # NOT_SET
             THEN ApplyType(config_setting.type, env[config_setting.env_var])
             ELSE IF config_setting.default # NOT_SET
             THEN ApplyType(config_setting.type, config_setting.default)
             ELSE RaiseAbout("ConfigurationError", key)

\* __getattr__ returning None where nothing is set, as dict.get would.
getattr_none_when_unset(cfg, env, key) ==
    IF key = "config" \/ key \notin DOMAIN cfg THEN Raise("AttributeError")
    ELSE LET config_setting == cfg[key]
         IN  IF config_setting.value # NOT_SET
             THEN ApplyType(config_setting.type, config_setting.value)
             ELSE IF config_setting.env_var # NoEnvVar
                     /\ env[config_setting.env_var] # NOT_SET
             THEN ApplyType(config_setting.type, env[config_setting.env_var])
             ELSE IF config_setting.yaml # NOT_SET
             THEN ApplyType(config_setting.type, config_setting.yaml)
             ELSE IF config_setting.default # NOT_SET
             THEN ApplyType(config_setting.type, config_setting.default)
             ELSE Return(None)

\* __getattr__ testing the truth of a source's value, not its presence.
getattr_by_truthiness(cfg, env, key) ==
    IF key = "config" \/ key \notin DOMAIN cfg THEN Raise("AttributeError")
    ELSE LET config_setting == cfg[key]
         IN  IF bool(config_setting.value) = True
             THEN ApplyType(config_setting.type, config_setting.value)
             ELSE IF config_setting.env_var # NoEnvVar
                     /\ bool(env[config_setting.env_var]) = True
             THEN ApplyType(config_setting.type, env[config_setting.env_var])
             ELSE IF bool(config_setting.yaml) = True
             THEN ApplyType(config_setting.type, config_setting.yaml)
             ELSE IF config_setting.default # NOT_SET
             THEN ApplyType(config_setting.type, config_setting.default)
             ELSE RaiseAbout("ConfigurationError", key)

\* __getattr__ that never looks at os.environ.
getattr_skips_environ(cfg, env, key) ==
    IF key = "config" \/ key \notin DOMAIN cfg THEN Raise("AttributeError")
    ELSE LET config_setting == cfg[key]
         IN  IF config_setting.value # NOT_SET
             THEN ApplyType(config_setting.type, config_setting.value)
             ELSE IF config_setting.yaml # NOT_SET
             THEN ApplyType(config_setting.type, config_setting.yaml)
             ELSE IF config_setting.default # NOT_SET
             THEN ApplyType(config_setting.type, config_setting.default)
             ELSE RaiseAbout("ConfigurationError", key)

\* __getattr__ going on to the next source when the coercion rejects one.
RECURSIVE FirstAccepted(_, _, _)
FirstAccepted(type_, raws, key) ==
    IF raws = <<>> THEN RaiseAbout("ConfigurationError", key)
    ELSE IF Head(raws) = NOT_SET \/ ApplyType(type_, Head(raws)).exc # ""
         THEN FirstAccepted(type_, Tail(raws), key)
    ELSE ApplyType(type_, Head(raws))

getattr_falls_back(cfg, env, key) ==
    IF key = "config" \/ key \notin DOMAIN cfg THEN Raise("AttributeError")
    ELSE LET config_setting == cfg[key]
         IN  FirstAccepted(config_setting.type,
                           <<config_setting.value,
                             IF config_setting.env_var = NoEnvVar THEN NOT_SET
                             ELSE env[config_setting.env_var],
                             config_setting.yaml, config_setting.default>>, key)

\* Configuration.__getattr__ (lines 145-161): the outcome of the call.
__getattr__(cfg, env, key) ==
    IF key = "config" \/ key \notin DOMAIN cfg THEN Raise("AttributeError")
    ELSE LET config_setting == cfg[key]
         IN  IF config_setting.value # NOT_SET
             THEN ApplyType(config_setting.type, config_setting.value)
             ELSE IF config_setting.env_var # NoEnvVar
                     /\ env[config_setting.env_var] # NOT_SET
             THEN ApplyType(config_setting.type, env[config_setting.env_var])
             ELSE IF config_setting.yaml # NOT_SET
             THEN ApplyType(config_setting.type, config_setting.yaml)
             ELSE IF config_setting.default # NOT_SET
             THEN ApplyType(config_setting.type, config_setting.default)
             ELSE RaiseAbout("ConfigurationError", key)

\* __setattr__ that keeps an explicit value already assigned.
setattr_keeps_first_value(cfg, key, value) ==
    IF key # "config" /\ key \in DOMAIN cfg
    THEN [config |-> IF cfg[key].value = NOT_SET
                     THEN [cfg EXCEPT ![key].value = value] ELSE cfg,
          stored |-> "value"]
    ELSE [config |-> IF key = "config" THEN TableOf(value) ELSE cfg,
          stored |-> "attribute"]

\* __setattr__ storing the value and dropping the setting's YAML value.
setattr_clears_overlay(cfg, key, value) ==
    IF key # "config" /\ key \in DOMAIN cfg
    THEN [config |-> [cfg EXCEPT ![key].value = value, ![key].yaml = NOT_SET],
          stored |-> "value"]
    ELSE [config |-> IF key = "config" THEN TableOf(value) ELSE cfg,
          stored |-> "attribute"]

\* __setattr__ entering a name that is not registered into the table.
setattr_registers_unknown(cfg, key, value) ==
    IF key # "config" /\ key \in DOMAIN cfg
    THEN [config |-> [cfg EXCEPT ![key].value = value], stored |-> "value"]
    ELSE [config |-> IF key = "config" THEN TableOf(value)
                     ELSE [k \in DOMAIN cfg \cup {key} |->
                              IF k = key
                              THEN [Setting("str", NOT_SET, NoEnvVar)
                                      EXCEPT !.value = value]
                              ELSE cfg[k]],
          stored |-> "value"]

\* Configuration.__setattr__ (lines 163-167): the table after the call, and
\* where the value went: the setting's 'value', or a plain attribute of the
\* object (object.__setattr__).  The table does not hold the attributes; it
\* is the value of one of them, 'config', and an assignment to that one
\* makes the assigned dict the table.
__setattr__(cfg, key, value) ==
    IF key # "config" /\ key \in DOMAIN cfg
    THEN [config |-> [cfg EXCEPT ![key].value = value], stored |-> "value"]
    ELSE [config |-> IF key = "config" THEN TableOf(value) ELSE cfg,
          stored |-> "attribute"]

\* The loop of load_yaml (lines 139-143) over the items still to store.
RECURSIVE StoreItems(_, _)

\* load_yaml checking every key before it stores any value.
RECURSIVE StoreItemsAllOrNothing(_, _)
StoreItemsAllOrNothing(cfg, items) ==
    LET unknown == { i \in 1..Len(items) : items[i].key \notin DOMAIN cfg }
    IN  IF unknown # {}
        THEN [config |-> cfg,
              out |-> RaiseAbout("ValueError",
                        items[CHOOSE i \in unknown : \A j \in unknown : i <= j].key)]
        ELSE IF items = <<>> THEN [config |-> cfg, out |-> Return(None)]
        ELSE StoreItemsAllOrNothing(
                 [cfg EXCEPT ![Head(items).key].yaml = Head(items).value],
                 Tail(items))

\* The loop keeping a YAML value stored by an earlier load.
RECURSIVE StoreItemsKeepExisting(_, _)
StoreItemsKeepExisting(cfg, items) ==
    IF items = <<>> THEN [config |-> cfg, out |-> Return(None)]
    ELSE LET key == Head(items).key
             value == Head(items).value
         IN  IF key \notin DOMAIN cfg
             THEN [config |-> cfg, out |-> RaiseAbout("ValueError", key)]
             ELSE StoreItemsKeepExisting(
                      IF cfg[key].yaml = NOT_SET
                      THEN [cfg EXCEPT ![key].yaml = value] ELSE cfg,
                      Tail(items))

\* The loop skipping the keys that are not registered.
RECURSIVE StoreItemsSkipUnknown(_, _)
StoreItemsSkipUnknown(cfg, items) ==
    IF items = <<>> THEN [config |-> cfg, out |-> Return(None)]
    ELSE LET key == Head(items).key
             value == Head(items).value
         IN  IF key \notin DOMAIN cfg
             THEN StoreItemsSkipUnknown(cfg, Tail(items))
             ELSE StoreItemsSkipUnknown([cfg EXCEPT ![key].yaml = value],
                                        Tail(items))

\* The loop dropping the explicit value of each setting the file names.
RECURSIVE StoreItemsDropValue(_, _)
StoreItemsDropValue(cfg, items) ==
    IF items = <<>> THEN [config |-> cfg, out |-> Return(None)]
    ELSE LET key == Head(items).key
             value == Head(items).value
         IN  IF key \notin DOMAIN cfg
             THEN [config |-> cfg, out |-> RaiseAbout("ValueError", key)]
             ELSE StoreItemsDropValue(
                      [cfg EXCEPT ![key].yaml = value, ![key].value = NOT_SET],
                      Tail(items))

StoreItems(cfg, items) ==
    IF items = <<>> THEN [config |-> cfg, out |-> Return(None)]
    ELSE LET key == Head(items).key
             value == Head(items).value
         IN  IF key \notin DOMAIN cfg
             THEN [config |-> cfg, out |-> RaiseAbout("ValueError", key)]
             ELSE StoreItems([cfg EXCEPT ![key].yaml = value], Tail(items))

\* load_yaml reading ~/.fuelrc whatever FUEL_CONFIG says.
yaml_file_ignores_env(env) == expanduser(FuelRc)

\* The file load_yaml reads (lines 133-136).
yaml_file(env) ==
    IF env["FUEL_CONFIG"] # NOT_SET THEN env["FUEL_CONFIG"].s
    ELSE expanduser(FuelRc)

\* Configuration.load_yaml (lines 132-143) when yaml.safe_load gives doc:
\* the table after the call and the call's outcome.
load_yaml(cfg, env, fs, doc) ==
    IF yaml_file(env) \in fs
    THEN IF doc.kind = "dict" THEN StoreItems(cfg, doc.items)
         ELSE [config |-> cfg, out |-> Raise("AttributeError")]
    ELSE [config |-> cfg, out |-> Return(None)]

(***************************************************************************)
(* Spec: a Configuration object under calls of its API, with a changing    *)
(* environment.                                                            *)
(***************************************************************************)
NoTheano == [importable |-> FALSE, floatX |-> S_f32, imports |-> 0]
NotBooted == [loaded |-> FALSE, flag |-> ""]

Init ==
    /\ config = EmptyTable
    /\ environ = [name \in EnvNames |-> NOT_SET]
    /\ files = {expanduser(FuelRc)}
    /\ last = Call("__init__", "", NOT_SET, NoDocument, Return(None))
    /\ pc = "api"
    /\ boot = NotBooted
    /\ theano = NoTheano

AddConfig(r) ==
    /\ pc = "api"
    /\ config' = add_config(config, r.key, r.type_, r.default, r.env_var)
    /\ last' = Call("add_config", r.key, r.default, NoDocument, Return(None))
    /\ UNCHANGED <<environ, files, pc, boot, theano>>

LoadYaml(doc) ==
    /\ pc = "api"
    /\ LET loaded == load_yaml(config, environ, files, doc)
       IN  /\ config' = loaded.config
           /\ last' = Call("load_yaml", "", NOT_SET, doc, loaded.out)
    /\ UNCHANGED <<environ, files, pc, boot, theano>>

\* __getattr__ keeping the value it returned as the setting's explicit value.
GetAttrMemoizes(key) ==
    /\ pc = "api"
    /\ LET out == __getattr__(config, environ, key)
       IN  /\ last' = Call("__getattr__", key, NOT_SET, NoDocument, out)
           /\ config' = IF out.exc = ""
                        THEN [config EXCEPT ![key].value = out.val] ELSE config
    /\ UNCHANGED <<environ, files, pc, boot, theano>>

GetAttr(key) ==
    /\ pc = "api"
    /\ last' = Call("__getattr__", key, NOT_SET, NoDocument,
                    __getattr__(config, environ, key))
    /\ UNCHANGED <<config, environ, files, pc, boot, theano>>

SetAttr(key, value) ==
    /\ pc = "api"
    /\ LET set == __setattr__(config, key, value)
       IN  /\ config' = set.config
           /\ last' = Call("__setattr__", key, value, NoDocument,
                           RaiseAbout("", set.stored))
    /\ UNCHANGED <<environ, files, pc, boot, theano>>

\* os.environ[name] = string, by this process or before it started.
Setenv(name, string) ==
    /\ pc = "api"
    /\ environ' = [environ EXCEPT ![name] = PyStr(string)]
    /\ last' = Call("setenv", name, NOT_SET, NoDocument, Return(None))
    /\ UNCHANGED <<config, files, pc, boot, theano>>

\* del os.environ[name]
Unsetenv(name) ==
    /\ pc = "api"
    /\ environ[name] # NOT_SET
    /\ environ' = [environ EXCEPT ![name] = NOT_SET]
    /\ last' = Call("unsetenv", name, NOT_SET, NoDocument, Return(None))
    /\ UNCHANGED <<config, files, pc, boot, theano>>

\* The environment variables the registered settings read.
SettingEnvNames == {"FUEL_DATA_PATH", "FUEL_FLOATX"}

\* The one-item mappings and the empty one, and the mappings of one setting
\* to a YAML null.
SmallDocuments ==
    { d \in Documents : Len(d.items) <= 1 }
    \cup { Mapping(<<[key |-> key, value |-> None]>>) : key \in Keys }

Next ==
    \/ \E r \in Registrations : AddConfig(r)
    \/ \E doc \in SmallDocuments : LoadYaml(doc)
    \/ \E key \in GetKeys : GetAttr(key)
    \/ \E key \in Keys, value \in SetValues : SetAttr(key, value)
    \/ SetAttr("config", EmptyDict)
    \/ \E name \in SettingEnvNames, string \in EnvStrings : Setenv(name, string)
    \/ \E name \in SettingEnvNames : Unsetenv(name)

Spec == Init /\ [][Next]_vars

(***************************************************************************)
(* SpecLoad: load_yaml on every mapping of up to MaxYamlKeys items, with   *)
(* the file at either place present or absent and FUEL_CONFIG set or not.  *)
(***************************************************************************)
InitLoad ==
    /\ config = EmptyTable
    /\ environ = [name \in EnvNames |-> NOT_SET]
    /\ files \in SUBSET {expanduser(FuelRc), AltRc}
    /\ last = Call("__init__", "", NOT_SET, NoDocument, Return(None))
    /\ pc = "api"
    /\ boot = NotBooted
    /\ theano = NoTheano

NextLoad ==
    \/ \E r \in ModuleRegistrations : AddConfig(r)
    \/ \E doc \in Documents : LoadYaml(doc)
    \/ \E key \in Keys : GetAttr(key)
    \/ Setenv("FUEL_CONFIG", AltRc)
    \/ Unsetenv("FUEL_CONFIG")

SpecLoad == InitLoad /\ [][NextLoad]_vars

(***************************************************************************)
(* SpecBoot: the module body.  It builds the Configuration (line 231),     *)
(* registers fuel's settings (234-246), loads the YAML file (248), tests   *)
(* fuel_uses_theano (252) and, if it is true, imports theano (253) and     *)
(* makes theano's floatX the default of floatX (255).  An exception at any *)
(* statement ends the import of the module.  Afterwards the settings the   *)
(* body used are read and written through the API.                         *)
(***************************************************************************)
\* The longest YAML mapping the module body is given.
MaxBootYamlKeys == 1

BootYamlKeys == {"floatX", "fuel_uses_theano", "verbose"}
BootDocuments == DocumentsOver(BootYamlKeys, MaxBootYamlKeys)
BootKeys == {"floatX", "fuel_uses_theano"}
BootFlagStrings == {S_0, S_true, S_yes}

InitBoot ==
    /\ config = EmptyTable
    /\ \E flag \in {NOT_SET} \cup { PyStr(s) : s \in BootFlagStrings },
          floatX \in {NOT_SET, PyStr(S_f16)},
          rc \in {NOT_SET, PyStr(AltRc)} :
            environ = [name \in EnvNames |->
                         CASE name = "FUEL_USES_THEANO" -> flag
                           [] name = "FUEL_FLOATX" -> floatX
                           [] name = "FUEL_CONFIG" -> rc
                           [] OTHER -> NOT_SET]
    /\ files \in SUBSET {expanduser(FuelRc), AltRc}
    /\ last = Call("__init__", "", NOT_SET, NoDocument, Return(None))
    /\ pc = fuel_settings[1].line
    /\ boot = NotBooted
    /\ \E importable \in BOOLEAN :
            theano = [importable |-> importable, floatX |-> S_f32, imports |-> 0]

\* config.add_config(...) (lines 234-246)
BootAddConfig(i) ==
    /\ pc = fuel_settings[i].line
    /\ LET r == fuel_settings[i]
       IN  /\ config' = add_config(config, r.key, r.type_, r.default, r.env_var)
           /\ last' = Call("add_config", r.key, r.default, NoDocument, Return(None))
    /\ pc' = IF i < Len(fuel_settings) THEN fuel_settings[i + 1].line ELSE "248"
    /\ UNCHANGED <<environ, files, boot, theano>>

\* config.load_yaml() (line 248)
BootLoadYaml(doc) ==
    /\ pc = "248"
    /\ LET loaded == load_yaml(config, environ, files, doc)
       IN  /\ config' = loaded.config
           /\ last' = Call("load_yaml", "", NOT_SET, doc, loaded.out)
           /\ pc' = IF loaded.out.exc = "" THEN "252" ELSE "failed"
           /\ boot' = [boot EXCEPT !.loaded = (loaded.out.exc = "")]
    /\ UNCHANGED <<environ, files, theano>>

\* The test of line 252 reading the registered default alone.
BootTestFlagDefaultOnly ==
    /\ pc = "252"
    /\ LET out == ApplyType(config["fuel_uses_theano"].type,
                            config["fuel_uses_theano"].default)
       IN  /\ last' = Call("__getattr__", "fuel_uses_theano", NOT_SET,
                           NoDocument, out)
           /\ pc' = IF out.exc # "" THEN "failed"
                    ELSE IF bool(out.val) = True THEN "253" ELSE "api"
           /\ boot' = [boot EXCEPT !.flag =
                          IF out.exc # "" THEN "raised"
                          ELSE IF bool(out.val) = True THEN "True" ELSE "False"]
    /\ UNCHANGED <<config, environ, files, theano>>

\* if config.fuel_uses_theano: (line 252)
BootTestFlag ==
    /\ pc = "252"
    /\ LET out == __getattr__(config, environ, "fuel_uses_theano")
       IN  /\ last' = Call("__getattr__", "fuel_uses_theano", NOT_SET,
                           NoDocument, out)
           /\ pc' = IF out.exc # "" THEN "failed"
                    ELSE IF bool(out.val) = True THEN "253" ELSE "api"
           /\ boot' = [boot EXCEPT !.flag =
                          IF out.exc # "" THEN "raised"
                          ELSE IF bool(out.val) = True THEN "True" ELSE "False"]
    /\ UNCHANGED <<config, environ, files, theano>>

\* from theano import config as theano_config (line 253)
BootImportTheano ==
    /\ pc = "253"
    /\ theano' = [theano EXCEPT !.imports = @ + 1]
    /\ pc' = IF theano.importable THEN "255" ELSE "failed"
    /\ last' = Call("import", "theano", NOT_SET, NoDocument,
                    IF theano.importable THEN Return(None) ELSE Raise("ImportError"))
    /\ UNCHANGED <<config, environ, files, boot>>

\* Line 255 assigning theano's floatX as the explicit value of floatX.
BootOverrideValue ==
    /\ pc = "255"
    /\ config' = [config EXCEPT !["floatX"].value = PyStr(theano.floatX)]
    /\ pc' = "api"
    /\ last' = Call("override_default", "floatX", PyStr(theano.floatX),
                    NoDocument, Return(None))
    /\ UNCHANGED <<environ, files, boot, theano>>

\* Line 255 left out.
BootOverrideNothing ==
    /\ pc = "255"
    /\ pc' = "api"
    /\ last' = Call("override_default", "floatX", PyStr(theano.floatX),
                    NoDocument, Return(None))
    /\ UNCHANGED <<config, environ, files, boot, theano>>

\* config.config['floatX']['default'] = theano_config.floatX (line 255)
BootOverrideDefault ==
    /\ pc = "255"
    /\ config' = [config EXCEPT !["floatX"].default = PyStr(theano.floatX)]
    /\ pc' = "api"
    /\ last' = Call("override_default", "floatX", PyStr(theano.floatX),
                    NoDocument, Return(None))
    /\ UNCHANGED <<environ, files, boot, theano>>

NextBoot ==
    \/ \E i \in DOMAIN fuel_settings : BootAddConfig(i)
    \/ \E doc \in BootDocuments : BootLoadYaml(doc)
    \/ BootTestFlag
    \/ BootImportTheano
    \/ BootOverrideDefault
    \/ \E key \in BootKeys : GetAttr(key)
    \/ \E value \in SetValues : SetAttr("floatX", value)
    \/ Setenv("FUEL_FLOATX", S_f16)
    \/ Unsetenv("FUEL_FLOATX")

SpecBoot == InitBoot /\ [][NextBoot]_vars

(***************************************************************************)
(* Properties.                                                             *)
(***************************************************************************)
\* The raw values a setting's sources hold, highest precedence first:
\* explicit override, environment variable, YAML overlay, default.
Present(raw) == raw # NOT_SET
EnvRaw(setting, env) ==
    IF setting.env_var = NoEnvVar THEN NOT_SET ELSE env[setting.env_var]
SourceChain(setting, env) ==
    SelectSeq(<<setting.value, EnvRaw(setting, env), setting.yaml,
                setting.default>>, Present)
NoSource(setting, env) == SourceChain(setting, env) = <<>>
HighestSource(setting, env) == Head(SourceChain(setting, env))

IsGet == last.op = "__getattr__" /\ last.key \in DOMAIN config
Got == config[last.key]

\* C1: a read of a registered setting returns the setting's coercion applied
\* to the raw value of the highest-precedence source that is present, in the
\* order explicit > environment > YAML overlay > default; with only a
\* default present it returns the coerced default.
C1_Precedence ==
    IsGet /\ ~NoSource(Got, environ) =>
        /\ last.out = ApplyType(Got.type, HighestSource(Got, environ))
        /\ (SourceChain(Got, environ) = <<Got.default>> =>
                last.out = ApplyType(Got.type, Got.default))

\* A read with no explicit value and the three other sources present, where
\* the environment's "1" wins over the overlay's False and is coerced to True.
C1_Witness ==
    /\ IsGet
    /\ Got.type = "_human_bool"
    /\ Got.value = NOT_SET
    /\ EnvRaw(Got, environ) = PyStr(S_1)
    /\ Got.yaml = False
    /\ Got.default = True
    /\ last.out = Return(True)

\* C2: add_config never raises, with or without a default; a read of a
\* registered setting raises ConfigurationError, naming the setting, exactly
\* when no source is present, and never returns a value then.
C2_NotSet ==
    /\ last.op = "add_config" => last.out = Return(None)
    /\ IsGet =>
          /\ NoSource(Got, environ) <=> last.out.exc = "ConfigurationError"
          /\ NoSource(Got, environ) =>
                last.out = RaiseAbout("ConfigurationError", last.key)

\* A read of a setting registered without a default, whose environment
\* variable is not set, fails with the error naming it.
C2_Witness ==
    /\ IsGet
    /\ Got.default = NOT_SET
    /\ Got.env_var # NoEnvVar
    /\ NoSource(Got, environ)
    /\ last.out = RaiseAbout("ConfigurationError", last.key)

\* C3: an assignment to a registered setting immediately followed by a read
\* of it gives the setting's coercion applied to the assigned value, whatever
\* the other sources hold.
C3_RoundTrip ==
    [][ ( /\ last.op = "__setattr__"
          /\ last.key \in DOMAIN config
          /\ last'.op = "__getattr__"
          /\ last'.key = last.key )
        => last'.out = ApplyType(config[last.key].type, last.arg) ]_vars

\* A read that returns the coerced explicit value while the environment, the
\* overlay and the default all hold other values.
C3_Witness ==
    /\ IsGet
    /\ Got.value = PyStr(S_true)
    /\ Got.type = "_human_bool"
    /\ EnvRaw(Got, environ) = PyStr(<<"1", ":", "0">>)
    /\ Got.yaml = False
    /\ Got.default # NOT_SET
    /\ last.out = Return(True)

\* The file load_yaml is to read: the one FUEL_CONFIG names if it is set,
\* else .fuelrc in the home directory.
ResolvedPath ==
    IF environ["FUEL_CONFIG"] = NOT_SET THEN Home \o <<"/", ".", "f", "u", "e", "l", "r", "c">>
    ELSE environ["FUEL_CONFIG"].s
IsLoad == last.op = "load_yaml"
UnknownAt(items) == { i \in 1..Len(items) : items[i].key \notin DOMAIN config }

\* C4: load_yaml on an existing file raises the unrecognized-setting error,
\* naming an unregistered key of the file, whenever the mapping holds a key
\* that is not registered, wherever in the iteration order that key comes.
C4_UnknownKeyRaises ==
    IsLoad /\ ResolvedPath \in files /\ last.doc.kind = "dict"
           /\ UnknownAt(last.doc.items) # {}
    => /\ last.out.exc = "ValueError"
       /\ \E i \in UnknownAt(last.doc.items) : last.out.msg = last.doc.items[i].key

\* A load that fails on an unregistered key coming after a registered one.
C4_Witness ==
    /\ IsLoad
    /\ ResolvedPath \in files
    /\ Len(last.doc.items) = 2
    /\ UnknownAt(last.doc.items) = {2}
    /\ last.out = RaiseAbout("ValueError", last.doc.items[2].key)

\* The YAML value a load of these items gives key k, when the items before
\* position stop are stored and the others are not: the value of the item
\* holding k, or the value k had before.
OverlayAfter(items, stop, k, before) ==
    IF \E i \in 1..(stop - 1) : items[i].key = k
    THEN items[CHOOSE i \in 1..(stop - 1) : items[i].key = k].value
    ELSE before
FirstUnknown(items) ==
    CHOOSE i \in UnknownAt(items) : \A j \in UnknownAt(items) : i <= j
SameBut(field, k) ==
    \A f \in {"type", "env_var", "default", "value", "yaml"} \ {field} :
        config'[k][f] = config[k][f]
FailedLoadStep == last'.op = "load_yaml" /\ last'.out.exc = "ValueError"

\* C5 as stated: a load that fails on an unregistered key leaves the YAML
\* value of every registered setting as it was before the call.
C5_FailedLoadChangesNothing ==
    [][ FailedLoadStep =>
          \A k \in DOMAIN config : config'[k].yaml = config[k].yaml ]_vars

\* C5 as amended: a load that fails on an unregistered key has stored the
\* values of the keys iterated before the first unregistered one, and has
\* changed nothing else: no other YAML value, no other field, no registration.
C5_FailedLoadIsPartial ==
    [][ FailedLoadStep =>
          /\ DOMAIN config' = DOMAIN config
          /\ last'.out.msg = last'.doc.items[FirstUnknown(last'.doc.items)].key
          /\ \A k \in DOMAIN config :
                /\ config'[k].yaml =
                      OverlayAfter(last'.doc.items, FirstUnknown(last'.doc.items),
                                   k, config[k].yaml)
                /\ SameBut("yaml", k) ]_vars

\* A failed load whose first item, a registered key, has been stored.
C5_Witness ==
    /\ IsLoad
    /\ last.out.exc = "ValueError"
    /\ UnknownAt(last.doc.items) = {2}
    /\ config[last.doc.items[1].key].yaml = last.doc.items[1].value
    /\ \E k \in DOMAIN config : config[k].yaml = NOT_SET

\* C6 as stated: a load leaves in place every YAML value that an earlier load
\* stored.
C6_LoadKeepsOverlay ==
    [][ last'.op = "load_yaml" =>
          \A k \in DOMAIN config :
              config[k].yaml # NOT_SET => config'[k].yaml = config[k].yaml ]_vars

\* C6 as amended: a load that returns has given every key of the file the
\* file's value as its YAML value, replacing the value of an earlier load;
\* the settings the file does not name keep theirs.
C6_LoadOverwritesOverlay ==
    [][ ( /\ last'.op = "load_yaml"
          /\ last'.out.exc = ""
          /\ ResolvedPath \in files )
        => /\ DOMAIN config' = DOMAIN config
           /\ \A k \in DOMAIN config :
                 /\ config'[k].yaml =
                       OverlayAfter(last'.doc.items, Len(last'.doc.items) + 1,
                                    k, config[k].yaml)
                 /\ SameBut("yaml", k) ]_vars

\* A returned load whose file names a setting that an earlier load gave the
\* other value; the setting now holds the file's value.
C6_Witness ==
    /\ IsLoad
    /\ last.out.exc = ""
    /\ ResolvedPath \in files
    /\ Len(last.doc.items) = 1
    /\ last.doc.items[1].value = False
    /\ last.doc.items[1].key \in DOMAIN config
    /\ config[last.doc.items[1].key].yaml = False
    /\ \E k \in DOMAIN config : config[k].yaml = PyStr(EmptyStr)

\* C10: when no file is at the resolved path, load_yaml returns without an
\* exception and leaves the table as it was.
C10_MissingFileIsNoOp ==
    [][ last'.op = "load_yaml" /\ ResolvedPath \notin files =>
          /\ last'.out = Return(None)
          /\ config' = config ]_vars

\* A load of a non-empty mapping that did nothing: FUEL_CONFIG names a path
\* with no file, although ~/.fuelrc exists.
C10_Witness ==
    /\ IsLoad
    /\ environ["FUEL_CONFIG"] # NOT_SET
    /\ ResolvedPath \notin files
    /\ expanduser(FuelRc) \in files
    /\ Len(last.doc.items) = 2
    /\ DOMAIN config # {}
    /\ last.doc.items[1].key \in DOMAIN config
    /\ config[last.doc.items[1].key].yaml = NOT_SET
    /\ last.out = Return(None)

\* The raw values of the sources that come before the default.
HigherSources(setting, env) ==
    SelectSeq(<<setting.value, EnvRaw(setting, env), setting.yaml>>, Present)
Shadowed(setting, env) == HigherSources(setting, env) # <<>>
IsGetFloatX == pc = "api" /\ IsGet /\ last.key = "floatX"

\* C7: the substitution of line 255 writes the default of floatX and nothing
\* else; where floatX has an environment or YAML value, a read gives the
\* coercion of that value before the substitution and after it, and every
\* later read of floatX with an explicit, environment or YAML value gives the
\* coercion of that value.
C7_OnlyDefaultTier ==
    /\ [][ last'.op = "override_default" =>
             /\ DOMAIN config' = DOMAIN config
             /\ \A k \in DOMAIN config :
                   IF k = "floatX" THEN SameBut("default", k)
                   ELSE config'[k] = config[k]
             /\ environ' = environ
             /\ Shadowed(config["floatX"], environ) =>
                   LET coerced == ApplyType("str",
                                    Head(HigherSources(config["floatX"], environ)))
                   IN  /\ __getattr__(config, environ, "floatX") = coerced
                       /\ __getattr__(config', environ', "floatX") = coerced ]_vars
    /\ [](IsGetFloatX /\ Shadowed(Got, environ) =>
             last.out = ApplyType(Got.type, Head(HigherSources(Got, environ))))

\* The state after the substitution, with FUEL_FLOATX set and a YAML value
\* for floatX: the default is theano's, the two other sources are as loaded.
C7_Witness ==
    /\ last.op = "override_default"
    /\ environ["FUEL_FLOATX"] = PyStr(S_f16)
    /\ config["floatX"].yaml = False
    /\ config["floatX"].value = NOT_SET
    /\ config["floatX"].default = PyStr(S_f32)

\* C8: once the module body has run, the default of floatX is theano's floatX
\* if the test of fuel_uses_theano was true and the registered 'float64' if
\* it was false, and a read of floatX with no explicit, environment or YAML
\* value returns that default as a str.
C8_DeferredDefault ==
    pc = "api" /\ boot.flag # "" =>
        LET expected == IF boot.flag = "True" THEN PyStr(theano.floatX)
                        ELSE PyStr(S_f64)
        IN  /\ boot.flag \in {"True", "False"}
            /\ config["floatX"].default = expected
            /\ IsGetFloatX /\ ~Shadowed(Got, environ) => last.out = Return(expected)

\* A read of floatX that returns theano's value, not 'float64'.
C8_Witness ==
    /\ IsGetFloatX
    /\ boot.flag = "True"
    /\ ~Shadowed(Got, environ)
    /\ last.out = Return(PyStr(S_f32))
    /\ last.out # Return(PyStr(S_f64))

\* The truth value fuel_uses_theano resolves to by the precedence of C1.
FlagResolved ==
    LET setting == config["fuel_uses_theano"]
        out == _human_bool(HighestSource(setting, environ), True)
    IN  IF out.exc # "" THEN "raised"
        ELSE IF out.val = True THEN "True" ELSE "False"

\* C9: theano is imported at most once, only after load_yaml has returned and
\* only when fuel_uses_theano, resolved by the precedence of C1 from the
\* environment, the YAML file or the default, was true; when it resolved
\* false theano is never imported.
C9_ProviderAtMostOnce ==
    /\ theano.imports <= 1
    /\ theano.imports = 1 => boot.loaded /\ boot.flag = "True"
    /\ boot.flag = "False" => theano.imports = 0
    /\ boot.flag # "" => boot.loaded /\ boot.flag = FlagResolved

\* theano imported because FUEL_USES_THEANO says "true", although the YAML
\* file says False.
C9_Witness ==
    /\ theano.imports = 1
    /\ boot.loaded
    /\ environ["FUEL_USES_THEANO"] = PyStr(S_true)
    /\ config["fuel_uses_theano"].yaml = False

(***************************************************************************)
(* SpecCoerce: the coercion functions on their own, applied to a value of   *)
(* CoerceValues and then once more to the value they returned.             *)
(***************************************************************************)
\* The longest string built from CoerceChars, and the longest list.
MaxStrLen == 3

MaxListLen == 2

\* The characters the functions look at (the two separators, a digit of each
\* boolean spelling) and one they do not.
CoerceChars == {"1", "0", ":", " ", "a"}

RECURSIVE StringsUpTo(_)
StringsUpTo(n) ==
    IF n = 0 THEN {<<>>}
    ELSE LET shorter == StringsUpTo(n - 1)
         IN  shorter \cup { Append(chars, c) : chars \in shorter, c \in CoerceChars }

CoerceStrings ==
    StringsUpTo(MaxStrLen) \cup {S_True, S_true, S_False, S_false, S_yes, S_None}

\* Items of a list value; two of them hold a separator.
ListItems == {<<"a">>, <<"a", ":", "1">>, <<"0", " ", "a">>}

RECURSIVE ListsUpTo(_)
ListsUpTo(n) ==
    IF n = 0 THEN {<<>>}
    ELSE LET shorter == ListsUpTo(n - 1)
         IN  shorter \cup { Append(items, item) : items \in shorter, item \in ListItems }

CoerceValues ==
    { PyStr(chars) : chars \in CoerceStrings }
    \cup { PyList(items) : items \in ListsUpTo(MaxListLen) }
    \cup { PyInt(i) : i \in {0 - 1, 0, 2} }
    \cup {True, False, None}

\* The keyword arguments of a call, as a mapping of name to value.
Keywords(name, value) == Mapping(<<[key |-> name, value |-> value]>>)

\* No call yet: value is the argument the functions are about to be given.
Argument(value) == Call("", "", value, NoDocument, Return(None))

InitCoerce ==
    /\ config = EmptyTable
    /\ environ = [name \in EnvNames |-> NOT_SET]
    /\ files = {}
    /\ last \in { Argument(value) : value \in CoerceValues }
    /\ pc = "coerce"
    /\ boot = NotBooted
    /\ theano = NoTheano

\* type_(value), for a type_ of lines 234-246.
Coerce(type_) ==
    /\ pc = "coerce"
    /\ last.op = ""
    /\ last' = Call(type_, "", last.arg, NoDocument, ApplyType(type_, last.arg))
    /\ UNCHANGED <<config, environ, files, pc, boot, theano>>

\* type_(type_(value)): the function applied to the value it just returned.
CoerceAgain ==
    /\ pc = "coerce"
    /\ last.op \in Types
    /\ last.key = ""
    /\ last.out.exc = ""
    /\ last' = Call(last.op, "again", last.out.val, NoDocument,
                    ApplyType(last.op, last.out.val))
    /\ UNCHANGED <<config, environ, files, pc, boot, theano>>

\* _human_bool(value, default=default)
HumanBool(default) ==
    /\ pc = "coerce"
    /\ last.op = ""
    /\ last' = Call("_human_bool", "default", last.arg, Keywords("default", default),
                    _human_bool(last.arg, default))
    /\ UNCHANGED <<config, environ, files, pc, boot, theano>>

\* The defaults _human_bool is given: the one of line 245, and others.
HumanBoolDefaults == {True, False, None}

NextCoerce ==
    \/ \E type_ \in Types : Coerce(type_)
    \/ CoerceAgain
    \/ \E default \in HumanBoolDefaults : HumanBool(default)

SpecCoerce == InitCoerce /\ [][NextCoerce]_vars

(***************************************************************************)
(* C11.  The reference the semantic boolean parser is compared with.       *)
(***************************************************************************)
TrueStrings == {S_1, S_True, S_true}

FalseStrings == {S_0, S_False, S_false}

Truthy(value) ==
    \/ value.kind = "int" /\ value.n # 0
    \/ value.kind = "list" /\ value.l # <<>>

HumanBoolReference(value, default) ==
    CASE value.kind = "bool" -> Return(value)
      [] value.kind = "str" /\ value.s \in TrueStrings -> Return(True)
      [] value.kind = "str" /\ value.s \in FalseStrings -> Return(False)
      [] value.kind = "str" /\ value.s = EmptyStr -> Return(default)
      [] value.kind = "str" /\ value.s \notin TrueStrings \cup FalseStrings \cup {EmptyStr}
            -> Raise("ValueError")
      [] value.kind \notin {"bool", "str"} -> Return(PyBool(Truthy(value)))

IsHumanBool == last.op = "_human_bool" /\ last.key = "default"

HumanBoolDefault == last.doc.items[1].value

\* C11: for every input and every supplied default, _human_bool gives what
\* the reference gives: a boolean as it is, "1", "True", "true" true, "0",
\* "False", "false" false, the empty string the supplied default, any other
\* string a ValueError, and any other value its truthiness.  The same holds
\* of the coercion registered at line 245, whose default is True.
C11_HumanBoolEqualsReference ==
    /\ IsHumanBool => last.out = HumanBoolReference(last.arg, HumanBoolDefault)
    /\ last.op = "_human_bool" /\ last.key \in {"", "again"}
          => last.out = HumanBoolReference(last.arg, True)

\* _human_bool("", default=False) has been called and returned False.
C11_Witness ==
    /\ IsHumanBool
    /\ last.arg = PyStr(EmptyStr)
    /\ HumanBoolDefault = False
    /\ last.out = Return(False)

\* The coercion rejects the raw value of the highest source that is present.
Rejected(setting, env) ==
    /\ ~NoSource(setting, env)
    /\ ApplyType(setting.type, HighestSource(setting, env)).exc # ""

\* C12: when the coercion rejects the raw value of the highest-precedence
\* source that is present, the read raises the coercion's own error (a
\* ValueError or TypeError, never ConfigurationError), returns no value of a
\* lower source, and a read that raises leaves the table as it was.
C12_CoercionErrorPropagates ==
    /\ [](IsGet /\ Rejected(Got, environ) =>
            /\ last.out = ApplyType(Got.type, HighestSource(Got, environ))
            /\ last.out.exc \in {"ValueError", "TypeError"}
            /\ last.out.val = NOT_SET)
    /\ [][ last'.op = "__getattr__" /\ last'.out.exc # "" => config' = config ]_vars

\* A read fails on the environment's "1:0", which _human_bool rejects, while
\* the overlay and the default hold values it accepts.
C12_Witness ==
    /\ IsGet
    /\ Got.type = "_human_bool"
    /\ Got.value = NOT_SET
    /\ EnvRaw(Got, environ) = PyStr(<<"1", ":", "0">>)
    /\ Got.yaml = False
    /\ Got.default = True
    /\ last.out = Raise("ValueError")

(***************************************************************************)
(* C13.  What it is to be the split of a string: the pieces hold no        *)
(* delimiter, and joined by the delimiter they give the string back.       *)
(***************************************************************************)
SequenceParsers == {"multiple_paths_parser", "extra_downloader_converter"}

Delimiter(type_) == IF type_ = "multiple_paths_parser" THEN pathsep ELSE " "

RECURSIVE Join(_, _)
Join(pieces, sep) ==
    IF Len(pieces) = 1 THEN Head(pieces)
    ELSE Head(pieces) \o <<sep>> \o Join(Tail(pieces), sep)

IsSplitOf(pieces, chars, sep) ==
    /\ pieces # <<>>
    /\ \A i \in 1..Len(pieces) : \A j \in 1..Len(pieces[i]) : pieces[i][j] # sep
    /\ Join(pieces, sep) = chars

\* C13: each of the two sequence parsers returns a value that is no string
\* unchanged and returns the split of a string on its delimiter, as a list
\* in order; applied to its own result it returns that result, so that
\* parser(parser(x)) = parser(x) for every string and every list x.
C13_ParsersIdempotent ==
    last.op \in SequenceParsers =>
        /\ last.arg.kind = "str" =>
              /\ last.out.exc = ""
              /\ last.out.val.kind = "list"
              /\ IsSplitOf(last.out.val.l, last.arg.s, Delimiter(last.op))
        /\ last.arg.kind # "str" => last.out = Return(last.arg)
        /\ last.key = "again" => last.out = Return(last.arg)

\* multiple_paths_parser applied to ['a', '1'], the list it returned for
\* "a:1", gives that list again.
C13_Witness ==
    /\ last.op = "multiple_paths_parser"
    /\ last.key = "again"
    /\ last.arg = PyList(<<(<<"a">>), (<<"1">>)>>)
    /\ last.out = Return(last.arg)

\* C14: an assignment to a registered setting changes that setting's explicit
\* value and nothing else: its type, env_var, default and YAML value, every
\* field of every other setting, the set of registered names and the
\* environment are what they were.
C14_SetChangesOnlyValue ==
    [][ last'.op = "__setattr__" /\ last'.key \in DOMAIN config =>
          /\ DOMAIN config' = DOMAIN config
          /\ config'[last'.key].value = last'.arg
          /\ SameBut("value", last'.key)
          /\ \A k \in DOMAIN config \ {last'.key} : config'[k] = config[k]
          /\ environ' = environ ]_vars

\* None has been assigned to floatX: the setting keeps its YAML value and
\* its default, and data_path keeps its own explicit value and YAML value.
C14_Witness ==
    /\ last.op = "__setattr__"
    /\ last.key = "floatX"
    /\ DOMAIN config = Keys
    /\ config["floatX"].value = None
    /\ config["floatX"].yaml = False
    /\ config["floatX"].default # NOT_SET
    /\ config["data_path"].value = PyStr(S_true)
    /\ config["data_path"].yaml = PyStr(EmptyStr)

\* The step is a read of a registered setting that has no explicit value,
\* coming right after the setting's environment variable was set or deleted.
ReadAfterEnvChange ==
    /\ last.op \in {"setenv", "unsetenv"}
    /\ last'.op = "__getattr__"
    /\ last'.key \in DOMAIN config
    /\ config[last'.key].value = NOT_SET
    /\ config[last'.key].env_var = last.key

\* C15: a read is resolved anew each time: for a setting with no explicit
\* value, a read that follows the setting, the change or the deletion of its
\* environment variable is resolved against the environment as it is at that
\* read, whatever earlier reads returned: the coerced variable if it is
\* there now, else the coerced YAML value, else the coerced default, else
\* ConfigurationError.
C15_ReadsFollowEnvironment ==
    [][ ReadAfterEnvChange =>
          LET setting == config[last'.key]
          IN  last'.out =
                IF environ'[setting.env_var] # NOT_SET
                THEN ApplyType(setting.type, environ'[setting.env_var])
                ELSE IF setting.yaml # NOT_SET
                THEN ApplyType(setting.type, setting.yaml)
                ELSE IF setting.default # NOT_SET
                THEN ApplyType(setting.type, setting.default)
                ELSE RaiseAbout("ConfigurationError", last'.key) ]_vars

\* A read of data_path returns the two paths of FUEL_DATA_PATH, a variable
\* that was not set when the object was made, although the overlay holds a
\* value for the setting.
C15_Witness ==
    /\ IsGet
    /\ Got.type = "multiple_paths_parser"
    /\ Got.value = NOT_SET
    /\ EnvRaw(Got, environ) = PyStr(<<"1", ":", "0">>)
    /\ Got.yaml = PyStr(EmptyStr)
    /\ last.out = Return(PyList(<<(<<"1">>), (<<"0">>)>>))

\* C16: a read, whether it returns or raises, changes no field of any
\* setting, nor the set of registered names, the environment or the files;
\* and a read of a name right after a read of the same name has the same
\* outcome.
C16_GetIsReadOnly ==
    [][ /\ last'.op = "__getattr__" =>
              config' = config /\ environ' = environ /\ files' = files
        /\ ( /\ last.op = "__getattr__"
             /\ last'.op = "__getattr__"
             /\ last'.key = last.key ) => last'.out = last.out ]_vars

\* A read of a str setting whose explicit value is None has returned 'None',
\* and the explicit value is still None.
C16_Witness ==
    /\ IsGet
    /\ Got.type = "str"
    /\ Got.value = None
    /\ last.out = Return(PyStr(S_None))

Registered ==
    CHOOSE r \in Registrations : r.key = last'.key /\ r.default = last'.arg

\* C18: add_config of a name that is already registered replaces the whole
\* setting: afterwards it holds the type, the env_var and the default of the
\* new registration and nothing else, neither the explicit value nor the
\* YAML value it held before; the other settings are what they were.
C18_ReRegistrationReplaces ==
    [][ last'.op = "add_config" /\ last'.key \in DOMAIN config =>
          /\ DOMAIN config' = DOMAIN config
          /\ config'[last'.key] =
                [type |-> Registered.type_, env_var |-> Registered.env_var,
                 default |-> Registered.default,
                 value |-> NOT_SET, yaml |-> NOT_SET]
          /\ \A k \in DOMAIN config \ {last'.key} : config'[k] = config[k] ]_vars

\* floatX has just been registered with _human_bool and holds neither an
\* explicit nor a YAML value, while data_path, registered with int, holds
\* both.
C18_Witness ==
    /\ last.op = "add_config"
    /\ last.key = "floatX"
    /\ DOMAIN config = Keys
    /\ config["floatX"] = Setting("_human_bool", True, "FUEL_FLOATX")
    /\ config["data_path"].type = "int"
    /\ config["data_path"].value # NOT_SET
    /\ config["data_path"].yaml # NOT_SET

\* The step is an assignment to a name the table does not hold.
UnregisteredSet == last'.op = "__setattr__" /\ last'.key \notin DOMAIN config

\* C19 as stated: an assignment to any name that is not registered leaves
\* the table as it was.
C19_UnregisteredSetLeavesTable ==
    [][ UnregisteredSet => config' = config ]_vars

\* C19: an assignment to a name that is not registered stores a plain
\* attribute of the object; for every such name but 'config' the table is
\* as it was, with no setting added and no explicit value written, while an
\* assignment to 'config', the attribute that holds the table, makes the
\* assigned dict the table.  __getattr__, which Python calls for a name that
\* is no attribute of the object, raises AttributeError for a name the
\* table does not hold, never ConfigurationError.
C19_UnregisteredSetStoresAttribute ==
    /\ [][ UnregisteredSet =>
             /\ last'.out.msg = "attribute"
             /\ last'.key # "config" => config' = config
             /\ last'.key = "config" => config' = TableOf(last'.arg) ]_vars
    /\ [](last.op = "__getattr__" /\ last.key \notin DOMAIN config =>
             last.out = Raise("AttributeError"))

\* data_path, which is not registered, has been assigned to; the table still
\* holds floatX alone, with the explicit value it had.
C19_Witness ==
    /\ last.op = "__setattr__"
    /\ last.key = "data_path"
    /\ last.out.msg = "attribute"
    /\ DOMAIN config = {"floatX"}
    /\ config["floatX"].value # NOT_SET
    /\ config["floatX"].value # last.arg

\* The values Python takes for false.
FalsyValues == {None, False, PyStr(EmptyStr), PyInt(0), PyList(<<>>)}

\* C20: a source is present when its entry is there, whatever the value: a
\* read of a setting whose explicit value is None or another false value
\* returns the coercion of that value, and a read of a setting with no
\* explicit value and no environment variable whose YAML value is None or
\* another false value returns the coercion of that YAML value; neither goes
\* on to a lower source.
C20_PresenceNotTruth ==
    IsGet =>
        /\ Got.value \in FalsyValues => last.out = ApplyType(Got.type, Got.value)
        /\ ( /\ Got.value = NOT_SET
             /\ EnvRaw(Got, environ) = NOT_SET
             /\ Got.yaml \in FalsyValues ) => last.out = ApplyType(Got.type, Got.yaml)

\* A read of the str setting floatX returns 'None' for the YAML null of the
\* overlay, not the default 'float64'.
C20_Witness ==
    /\ IsGet
    /\ Got.type = "str"
    /\ Got.value = NOT_SET
    /\ EnvRaw(Got, environ) = NOT_SET
    /\ Got.yaml = None
    /\ Got.default = PyStr(S_f64)
    /\ last.out = Return(PyStr(S_None))

====
